---- MODULE Spec2Model ----
(***************************************************************************)
(* Model of the tx-toy ledger replay engine.                               *)
(*                                                                         *)
(*   src/src/main.rs           rd_from_stdin / wtr_to_stdout / process_tx  *)
(*   src/src/transaction.rs    the five Transaction impls (create / apply) *)
(*   src/src/account_state.rs  AccountState and its hist / disputed_tx     *)
(*                                                                         *)
(* Monetary fields are f64 in the source.  They are modelled as a binary   *)
(* floating point format with MantBits significant bits and a fixed        *)
(* quantum of 1: every result of + and - is rounded to the nearest         *)
(* representable value, ties to even, as IEEE-754 does.  MantBits is the   *)
(* scaled-down stand-in for the 53 bits of an f64.                         *)
(*                                                                         *)
(* rec, pre and res record the last iteration of the loop; trip and fed    *)
(* are history variables that only some specifications write: fed is the   *)
(* sequence of records read so far.                                        *)
(***************************************************************************)
EXTENDS Integers, Sequences, FiniteSets, TLC

VARIABLES accounts, status, nread, rec, pre, res, output, trip, fed

vars == <<accounts, status, nread, rec, pre, res, output, trip, fed>>

(***************************************************************************)
(* Bounds of the model.                                                    *)
(***************************************************************************)
\* number of records read from a stream that addresses several clients
MaxEvents == 3
\* number of records read from a stream that addresses one client only
MaxSolo == 5
\* number of records read before a Deposit, Dispute, Resolve sequence starts
MaxPrefix == 4

\* records of a stream whose Deposit records have distinct TxIds
MaxOnce == 4
\* records of a stream that addresses several clients, kept as read
MaxMulti == 3
\* records read from a stream made of the records of the end-to-end fixture
MaxFixture == 5
\* records read from a stream of Deposit and Withdrawal records
MaxCash == 4
\* records read from a stream for one client without negative amounts
MaxPlain == 4
\* significant bits of the floating point format (enough for the amounts of the
\* end-to-end fixture, 5, 4, 9 and 10, to be exact as they are in an f64)
MantBits == 4

(***************************************************************************)
(* Program constants.                                                      *)
(***************************************************************************)
\* u16::MAX: the accounts vector has indices 0 .. U16_MAX - 1
U16_MAX == 65535

(***************************************************************************)
(* Option<T>: None is the empty sequence, Some(x) a one-element sequence.  *)
(***************************************************************************)
None == <<>>
Some(x) == <<x>>
IsSome(o) == o # <<>>
Unwrap(o) == o[1]

(***************************************************************************)
(* f64 arithmetic, scaled down to MantBits significant bits.               *)
(***************************************************************************)
Pow2(n) == 2 ^ n

Abs(v) == IF v < 0 THEN -v ELSE v

\* number of bits of a natural number
RECURSIVE BitLen(_)
BitLen(a) == IF a = 0 THEN 0 ELSE 1 + BitLen(a \div 2)

\* round to nearest representable value, ties to even significand
Round(v) ==
    LET a == Abs(v)
        e == BitLen(a) - MantBits
    IN  IF e <= 0 THEN v
        ELSE LET q    == a \div Pow2(e)
                 r    == a % Pow2(e)
                 half == Pow2(e - 1)
                 up   == (r > half) \/ (r = half /\ q % 2 = 1)
                 m    == IF up THEN q + 1 ELSE q
             IN  (IF v < 0 THEN -1 ELSE 1) * m * Pow2(e)

\* f64 += and -=
FAdd(x, y) == Round(x + y)
FSub(x, y) == Round(x - y)

(***************************************************************************)
(* The input domain: records of the CSV stream.                            *)
(***************************************************************************)
Types == {"Deposit", "Dispute", "Withdraw", "Resolve", "Chargeback"}

\* client ids of the stream; 0 is a legal u16 that the indexing does not serve
ClientIds == {0, 1, 2}

TxIds == {1, 2}

\* the largest odd significand: adding 2 to it needs one more bit
BigAmount == Pow2(MantBits) - 1

\* a negative amount whose sum with 1 falls halfway between two representable
\* values (nothing rejects a negative amount)
NegAmount == -(Pow2(MantBits) + 2)

\* the amount column: empty, or an f64
Amounts == {None, Some(NegAmount), Some(1), Some(2), Some(BigAmount)}

\* Dispute, Resolve and Chargeback rows: the column is empty or filled
RefAmounts == {None, Some(1)}

Records(clients) ==
    [type : {"Deposit", "Withdraw"}, client : clients, tx : TxIds, amount : Amounts]
    \cup [type : {"Dispute", "Resolve", "Chargeback"}, client : clients, tx : TxIds,
          amount : RefAmounts]

\* the stream addresses any client / client 1 only
AllRecords == Records(ClientIds)
SoloRecords == Records({1})

(***************************************************************************)
(* AccountState (account_state.rs).  hist maps a TxId to the Deposit that  *)
(* was registered under it; disputed_tx is a set of TxIds.                 *)
(***************************************************************************)
New(client) ==
    [client      |-> client,
     available   |-> 0,
     held        |-> 0,
     total       |-> 0,
     locked      |-> FALSE,
     hist        |-> [t \in {} |-> None],
     disputed_tx |-> {}]

\* mutant of register_deposit: the entry already stored under the key is kept
register_deposit_KeepFirst(acc, id, tx) ==
    [acc EXCEPT !.hist = [t \in (DOMAIN acc.hist) \cup {id} |->
                             IF t \in DOMAIN acc.hist THEN acc.hist[t] ELSE tx]]

\* HashMap::insert: a later value replaces the one stored under the same key
register_deposit(acc, id, tx) ==
    [acc EXCEPT !.hist = [t \in (DOMAIN acc.hist) \cup {id} |->
                             IF t = id THEN tx ELSE acc.hist[t]]]

register_dispute(acc, id) ==
    [acc EXCEPT !.disputed_tx = acc.disputed_tx \cup {id}]

\* mutant of unregister_dispute: the deposit is dropped, its disputed flag is not
unregister_dispute_KeepFlag(acc, id) ==
    [acc EXCEPT !.hist = [t \in (DOMAIN acc.hist) \ {id} |-> acc.hist[t]]]

\* mutant of unregister_dispute: the flag is dropped, the deposit stays in hist
unregister_dispute_KeepDeposit(acc, id) ==
    [acc EXCEPT !.disputed_tx = acc.disputed_tx \ {id}]

unregister_dispute(acc, id) ==
    [acc EXCEPT !.disputed_tx = acc.disputed_tx \ {id},
                !.hist = [t \in (DOMAIN acc.hist) \ {id} |-> acc.hist[t]]]

(***************************************************************************)
(* Result<T, TxError>                                                      *)
(***************************************************************************)
Ok(v) == [ok |-> TRUE, val |-> v]
Err(e) == [ok |-> FALSE, err |-> e]

\* what one apply leaves behind: the account and Ok(()) or the TxError
Applied(acc, r) == [acc |-> acc, res |-> r]

(***************************************************************************)
(* The five Transaction impls (transaction.rs).                            *)
(***************************************************************************)
Deposit_create(id, amount) ==
    IF amount = None THEN Err("AmountMandatory")
    ELSE Ok([id |-> id, amount |-> Unwrap(amount)])

Deposit_apply(self, acc) ==
    LET a1 == [acc EXCEPT !.available = FAdd(acc.available, self.amount),
                          !.total     = FAdd(acc.total, self.amount)]
    IN  Applied(register_deposit(a1, self.id, self), "Ok")

\* mutant of Withdrawal_create: a missing amount is taken as 0
Withdrawal_create_DefaultZero(id, amount) ==
    IF amount = None THEN Ok([amount |-> 0])
    ELSE Ok([amount |-> Unwrap(amount)])

Withdrawal_create(id, amount) ==
    IF amount = None THEN Err("AmountMandatory")
    ELSE Ok([amount |-> Unwrap(amount)])

\* mutant of Withdrawal_apply: the funds check reads total instead of available
Withdrawal_apply_CheckTotal(self, acc) ==
    IF acc.total < self.amount
    THEN Applied(acc, "NotEnoughAvailableFunds")
    ELSE Applied([acc EXCEPT !.available = FSub(acc.available, self.amount),
                             !.total     = FSub(acc.total, self.amount)], "Ok")

\* mutant of Withdrawal_apply: the whole available balance cannot be withdrawn
Withdrawal_apply_KeepSome(self, acc) ==
    IF acc.available <= self.amount
    THEN Applied(acc, "NotEnoughAvailableFunds")
    ELSE Applied([acc EXCEPT !.available = FSub(acc.available, self.amount),
                             !.total     = FSub(acc.total, self.amount)], "Ok")

Withdrawal_apply(self, acc) ==
    IF acc.available < self.amount
    THEN Applied(acc, "NotEnoughAvailableFunds")
    ELSE Applied([acc EXCEPT !.available = FSub(acc.available, self.amount),
                             !.total     = FSub(acc.total, self.amount)], "Ok")

Dispute_create(id, amount) == Ok([id |-> id])

\* mutant of Dispute_apply: a dispute is applied only if available covers it
Dispute_apply_IfCovered(self, acc) ==
    IF self.id \in DOMAIN acc.hist /\ acc.available >= acc.hist[self.id].amount
    THEN LET tx == acc.hist[self.id]
             a1 == [acc EXCEPT !.available = FSub(acc.available, tx.amount),
                               !.held      = FAdd(acc.held, tx.amount)]
         IN  Applied(register_dispute(a1, self.id), "Ok")
    ELSE Applied(acc, "Ok")

\* mutant of Dispute_apply: the id is marked disputed even when hist lacks it
Dispute_apply_MarkUnknown(self, acc) ==
    IF self.id \in DOMAIN acc.hist
    THEN LET tx == acc.hist[self.id]
             a1 == [acc EXCEPT !.available = FSub(acc.available, tx.amount),
                               !.held      = FAdd(acc.held, tx.amount)]
         IN  Applied(register_dispute(a1, self.id), "Ok")
    ELSE Applied(register_dispute(acc, self.id), "Ok")

Dispute_apply(self, acc) ==
    IF self.id \in DOMAIN acc.hist
    THEN LET tx == acc.hist[self.id]
             a1 == [acc EXCEPT !.available = FSub(acc.available, tx.amount),
                               !.held      = FAdd(acc.held, tx.amount)]
         IN  Applied(register_dispute(a1, self.id), "Ok")
    ELSE Applied(acc, "Ok")

Resolve_create(id, amount) == Ok([id |-> id])

Resolve_apply(self, acc) ==
    IF self.id \in acc.disputed_tx /\ self.id \in DOMAIN acc.hist
    THEN LET tx == acc.hist[self.id]
             a1 == [acc EXCEPT !.available = FAdd(acc.available, tx.amount),
                               !.held      = FSub(acc.held, tx.amount)]
         IN  Applied(unregister_dispute(a1, self.id), "Ok")
    ELSE Applied(acc, "Ok")

Chargeback_create(id, amount) == Ok([id |-> id])

\* mutant of Chargeback_apply: the account is not frozen
Chargeback_apply_NoLock(self, acc) ==
    IF self.id \in acc.disputed_tx /\ self.id \in DOMAIN acc.hist
    THEN LET tx == acc.hist[self.id]
             a1 == [acc EXCEPT !.total  = FSub(acc.total, tx.amount),
                               !.held   = FSub(acc.held, tx.amount)]
         IN  Applied(unregister_dispute(a1, self.id), "Ok")
    ELSE Applied(acc, "Ok")

\* mutant of Chargeback_apply: only hist is consulted, not disputed_tx
Chargeback_apply_AnyDeposit(self, acc) ==
    IF self.id \in DOMAIN acc.hist
    THEN LET tx == acc.hist[self.id]
             a1 == [acc EXCEPT !.locked = TRUE,
                               !.total  = FSub(acc.total, tx.amount),
                               !.held   = FSub(acc.held, tx.amount)]
         IN  Applied(unregister_dispute(a1, self.id), "Ok")
    ELSE Applied(acc, "Ok")

Chargeback_apply(self, acc) ==
    IF self.id \in acc.disputed_tx /\ self.id \in DOMAIN acc.hist
    THEN LET tx == acc.hist[self.id]
             a1 == [acc EXCEPT !.locked = TRUE,
                               !.total  = FSub(acc.total, tx.amount),
                               !.held   = FSub(acc.held, tx.amount)]
         IN  Applied(unregister_dispute(a1, self.id), "Ok")
    ELSE Applied(acc, "Ok")

\* the match of rd_from_stdin: create the transaction, then apply it; an Err
\* of either is returned by `?` and the account is as it was at that point
CreateAndApply(r, acc) ==
    LET c == CASE r.type = "Deposit"    -> Deposit_create(r.tx, r.amount)
               [] r.type = "Withdraw"   -> Withdrawal_create(r.tx, r.amount)
               [] r.type = "Dispute"    -> Dispute_create(r.tx, r.amount)
               [] r.type = "Resolve"    -> Resolve_create(r.tx, r.amount)
               [] r.type = "Chargeback" -> Chargeback_create(r.tx, r.amount)
    IN  IF ~c.ok THEN Applied(acc, c.err)
        ELSE CASE r.type = "Deposit"    -> Deposit_apply(c.val, acc)
               [] r.type = "Withdraw"   -> Withdrawal_apply(c.val, acc)
               [] r.type = "Dispute"    -> Dispute_apply(c.val, acc)
               [] r.type = "Resolve"    -> Resolve_apply(c.val, acc)
               [] r.type = "Chargeback" -> Chargeback_apply(c.val, acc)

\* mutant of ApplyUnlessLocked: the locked flag is not consulted
ApplyAlways(r, acc) == CreateAndApply(r, acc)

\* a locked account skips the record (`continue`): nothing is created or applied
ApplyUnlessLocked(r, acc) ==
    IF acc.locked THEN Applied(acc, "Ok") ELSE CreateAndApply(r, acc)

(***************************************************************************)
(* rd_from_stdin (main.rs): the accounts vector and the loop over records. *)
(***************************************************************************)
\* indices of the accounts vector that the modelled client ids can address
Indices == {c - 1 : c \in ClientIds} \cap (0 .. (U16_MAX - 1))

\* accounts[client as usize - 1]: the subtraction underflows for client 0 and
\* the access panics (overflow check, or index out of bounds when it wraps)
IndexPanics(client) == (client - 1) \notin (0 .. (U16_MAX - 1))

\* mutant of GetOrCreate: a client without account starts from the account
\* stored in the first slot of the vector
GetOrCreate_CloneFirst(accs, client) ==
    IF IsSome(accs[client - 1]) THEN Unwrap(accs[client - 1])
    ELSE IF IsSome(accs[0]) THEN [Unwrap(accs[0]) EXCEPT !.client = client]
    ELSE New(client)

\* the account the record is applied to: the stored one, or a new one
GetOrCreate(accs, client) ==
    IF IsSome(accs[client - 1]) THEN Unwrap(accs[client - 1]) ELSE New(client)

\* mutant of Process: a record whose create or apply fails is skipped and the
\* loop goes on to the next record
Process_SkipBad(r, max) ==
    /\ status = "reading"
    /\ nread < max
    /\ nread' = nread + 1
    /\ rec' = Some(r)
    /\ output' = output
    /\ IF IndexPanics(r.client)
       THEN /\ status' = "panic"
            /\ res' = "Panic"
            /\ pre' = None
            /\ accounts' = accounts
       ELSE LET acc == GetOrCreate(accounts, r.client)
                out == ApplyUnlessLocked(r, acc)
            IN  /\ pre' = Some(acc)
                /\ res' = out.res
                /\ accounts' = [accounts EXCEPT ![r.client - 1] = Some(out.acc)]
                /\ status' = "reading"

\* one iteration of the loop, for a record r of a stream of at most max records
Process(r, max) ==
    /\ status = "reading"
    /\ nread < max
    /\ nread' = nread + 1
    /\ rec' = Some(r)
    /\ output' = output
    /\ IF IndexPanics(r.client)
       THEN /\ status' = "panic"
            /\ res' = "Panic"
            /\ pre' = None
            /\ accounts' = accounts
       ELSE LET acc == GetOrCreate(accounts, r.client)
                out == ApplyUnlessLocked(r, acc)
            IN  /\ pre' = Some(acc)
                /\ res' = out.res
                /\ accounts' = [accounts EXCEPT ![r.client - 1] = Some(out.acc)]
                /\ status' = IF out.res = "Ok" THEN "reading" ELSE "error"

ReadDeposit ==
    /\ \E r \in AllRecords : r.type = "Deposit" /\ Process(r, MaxEvents)
    /\ UNCHANGED <<trip, fed>>

SoloDeposit ==
    /\ \E r \in SoloRecords : r.type = "Deposit" /\ Process(r, MaxSolo)
    /\ UNCHANGED <<trip, fed>>

ReadWithdraw ==
    /\ \E r \in AllRecords : r.type = "Withdraw" /\ Process(r, MaxEvents)
    /\ UNCHANGED <<trip, fed>>

SoloWithdraw ==
    /\ \E r \in SoloRecords : r.type = "Withdraw" /\ Process(r, MaxSolo)
    /\ UNCHANGED <<trip, fed>>

ReadDispute ==
    /\ \E r \in AllRecords : r.type = "Dispute" /\ Process(r, MaxEvents)
    /\ UNCHANGED <<trip, fed>>

SoloDispute ==
    /\ \E r \in SoloRecords : r.type = "Dispute" /\ Process(r, MaxSolo)
    /\ UNCHANGED <<trip, fed>>

ReadResolve ==
    /\ \E r \in AllRecords : r.type = "Resolve" /\ Process(r, MaxEvents)
    /\ UNCHANGED <<trip, fed>>

SoloResolve ==
    /\ \E r \in SoloRecords : r.type = "Resolve" /\ Process(r, MaxSolo)
    /\ UNCHANGED <<trip, fed>>

ReadChargeback ==
    /\ \E r \in AllRecords : r.type = "Chargeback" /\ Process(r, MaxEvents)
    /\ UNCHANGED <<trip, fed>>

SoloChargeback ==
    /\ \E r \in SoloRecords : r.type = "Chargeback" /\ Process(r, MaxSolo)
    /\ UNCHANGED <<trip, fed>>

(***************************************************************************)
(* wtr_to_stdout (main.rs): the accounts that exist, in index order, each  *)
(* serialized without its hist and disputed_tx (serde(skip)).              *)
(***************************************************************************)
Serialize(acc) ==
    [client |-> acc.client, available |-> acc.available, held |-> acc.held,
     total |-> acc.total, locked |-> acc.locked]

Min(S) == CHOOSE x \in S : \A y \in S : x <= y

\* mutant of Snapshot: an account that holds no deposit is left out
RECURSIVE Snapshot_SkipIdle(_, _)
Snapshot_SkipIdle(accs, idx) ==
    IF idx = {} THEN <<>>
    ELSE LET i == Min(idx)
         IN  (IF IsSome(accs[i]) /\ DOMAIN Unwrap(accs[i]).hist # {}
              THEN <<Serialize(Unwrap(accs[i]))>> ELSE <<>>)
             \o Snapshot_SkipIdle(accs, idx \ {i})

RECURSIVE Snapshot(_, _)
Snapshot(accs, idx) ==
    IF idx = {} THEN <<>>
    ELSE LET i == Min(idx)
         IN  (IF IsSome(accs[i]) THEN <<Serialize(Unwrap(accs[i]))>> ELSE <<>>)
             \o Snapshot(accs, idx \ {i})

\* the stream ends: rd_from_stdin returns Ok(accounts), process_tx writes them
EndOfStream ==
    /\ status = "reading"
    /\ status' = "written"
    /\ output' = Snapshot(accounts, Indices)
    /\ UNCHANGED <<accounts, nread, rec, pre, res, trip, fed>>

Init ==
    /\ accounts = [i \in Indices |-> None]
    /\ status = "reading"
    /\ nread = 0
    /\ rec = None
    /\ pre = None
    /\ res = "Ok"
    /\ output = <<>>
    /\ trip = None
    /\ fed = <<>>

Next ==
    \/ ReadDeposit
    \/ ReadWithdraw
    \/ ReadDispute
    \/ ReadResolve
    \/ ReadChargeback
    \/ EndOfStream

Spec == Init /\ [][Next]_vars

\* the same program on a stream whose records all address client 1
NextSolo ==
    \/ SoloDeposit
    \/ SoloWithdraw
    \/ SoloDispute
    \/ SoloResolve
    \/ SoloChargeback
    \/ EndOfStream

SpecSolo == Init /\ [][NextSolo]_vars

(***************************************************************************)
(* The same program on a stream for client 1 that, after any records,      *)
(* holds Deposit(T, A), Dispute(T), Resolve(T) one after the other, the    *)
(* Deposit reaching an unlocked account with no open dispute.  trip        *)
(* records how far the sequence is, T, and the account as the Deposit      *)
(* left it.                                                                *)
(***************************************************************************)
TripPrefix ==
    /\ trip = None
    /\ \E r \in SoloRecords : Process(r, MaxPrefix)
    /\ UNCHANGED <<trip, fed>>

TripDeposit ==
    /\ trip = None
    /\ status = "reading"
    /\ LET acc == GetOrCreate(accounts, 1)
       IN  ~acc.locked /\ acc.disputed_tx = {}
    /\ \E r \in SoloRecords :
          /\ r.type = "Deposit"
          /\ IsSome(r.amount)
          /\ Process(r, MaxPrefix + 1)
          /\ trip' = Some([stage |-> 1, tx |-> r.tx,
                           deposited |-> Unwrap(accounts'[0])])
    /\ UNCHANGED fed

TripDispute ==
    /\ IsSome(trip)
    /\ Unwrap(trip).stage = 1
    /\ \E r \in SoloRecords :
          /\ r.type = "Dispute"
          /\ r.tx = Unwrap(trip).tx
          /\ Process(r, MaxPrefix + 2)
    /\ trip' = Some([Unwrap(trip) EXCEPT !.stage = 2])
    /\ UNCHANGED fed

TripResolve ==
    /\ IsSome(trip)
    /\ Unwrap(trip).stage = 2
    /\ \E r \in SoloRecords :
          /\ r.type = "Resolve"
          /\ r.tx = Unwrap(trip).tx
          /\ Process(r, MaxPrefix + 3)
    /\ trip' = Some([Unwrap(trip) EXCEPT !.stage = 3])
    /\ UNCHANGED fed

NextTrip ==
    \/ TripPrefix
    \/ TripDeposit
    \/ TripDispute
    \/ TripResolve
    \/ EndOfStream

SpecTrip == Init /\ [][NextTrip]_vars

(***************************************************************************)
(* The loop as a function of the stream: the accounts vector and the way   *)
(* the run stands after the first n records of a stream.  Feed is one      *)
(* iteration that also appends the record to fed, the stream read so far.  *)
(***************************************************************************)
Step(run, r) ==
    IF run.status # "reading" THEN run
    ELSE IF IndexPanics(r.client) THEN [run EXCEPT !.status = "panic"]
    ELSE LET acc == GetOrCreate(run.accounts, r.client)
             out == ApplyUnlessLocked(r, acc)
         IN  [accounts |-> [run.accounts EXCEPT ![r.client - 1] = Some(out.acc)],
              status   |-> IF out.res = "Ok" THEN "reading" ELSE "error"]

RECURSIVE RunStream(_, _)
RunStream(stream, n) ==
    IF n = 0 THEN [accounts |-> [i \in Indices |-> None], status |-> "reading"]
    ELSE Step(RunStream(stream, n - 1), stream[n])

Feed(r, max) ==
    /\ Process(r, max)
    /\ fed' = Append(fed, r)
    /\ UNCHANGED trip

(***************************************************************************)
(* The same program on a stream for client 1 in which no TxId is used by   *)
(* two Deposit records.                                                    *)
(***************************************************************************)
OnceRecords ==
    [type : {"Deposit"}, client : {1}, tx : TxIds, amount : {Some(1), Some(BigAmount)}]
    \cup [type : {"Withdraw"}, client : {1}, tx : TxIds, amount : {Some(1)}]
    \cup [type : {"Dispute", "Resolve", "Chargeback"}, client : {1}, tx : TxIds,
          amount : {None}]

\* the TxIds of the Deposit records read so far
Deposited == {fed[i].tx : i \in {j \in 1 .. Len(fed) : fed[j].type = "Deposit"}}

OnceDeposit ==
    \E r \in OnceRecords :
        r.type = "Deposit" /\ r.tx \notin Deposited /\ Feed(r, MaxOnce)

OnceWithdraw == \E r \in OnceRecords : r.type = "Withdraw" /\ Feed(r, MaxOnce)

OnceDispute == \E r \in OnceRecords : r.type = "Dispute" /\ Feed(r, MaxOnce)

OnceResolve == \E r \in OnceRecords : r.type = "Resolve" /\ Feed(r, MaxOnce)

OnceChargeback == \E r \in OnceRecords : r.type = "Chargeback" /\ Feed(r, MaxOnce)

NextOnce ==
    \/ OnceDeposit
    \/ OnceWithdraw
    \/ OnceDispute
    \/ OnceResolve
    \/ OnceChargeback
    \/ EndOfStream

SpecOnce == Init /\ [][NextOnce]_vars

(***************************************************************************)
(* The same program on a stream that addresses clients 0, 1 and 2 and is   *)
(* kept in fed as it is read.                                              *)
(***************************************************************************)
MultiRecords ==
    [type : {"Deposit"}, client : ClientIds, tx : {1}, amount : {None, Some(1)}]
    \cup [type : {"Withdraw"}, client : ClientIds, tx : {1}, amount : {Some(1)}]
    \cup [type : {"Dispute", "Resolve", "Chargeback"}, client : ClientIds, tx : {1},
          amount : {None}]

MultiDeposit == \E r \in MultiRecords : r.type = "Deposit" /\ Feed(r, MaxMulti)

MultiWithdraw == \E r \in MultiRecords : r.type = "Withdraw" /\ Feed(r, MaxMulti)

MultiDispute == \E r \in MultiRecords : r.type = "Dispute" /\ Feed(r, MaxMulti)

MultiResolve == \E r \in MultiRecords : r.type = "Resolve" /\ Feed(r, MaxMulti)

MultiChargeback == \E r \in MultiRecords : r.type = "Chargeback" /\ Feed(r, MaxMulti)

NextMulti ==
    \/ MultiDeposit
    \/ MultiWithdraw
    \/ MultiDispute
    \/ MultiResolve
    \/ MultiChargeback
    \/ EndOfStream

SpecMulti == Init /\ [][NextMulti]_vars

(***************************************************************************)
(* The same program on streams made of the five records of the end-to-end  *)
(* fixture, in any order and number.                                       *)
(***************************************************************************)
Fixture ==
    << [type |-> "Deposit",  client |-> 1, tx |-> 1, amount |-> Some(5)],
       [type |-> "Deposit",  client |-> 1, tx |-> 2, amount |-> Some(4)],
       [type |-> "Withdraw", client |-> 1, tx |-> 3, amount |-> Some(9)],
       [type |-> "Deposit",  client |-> 2, tx |-> 4, amount |-> Some(10)],
       [type |-> "Dispute",  client |-> 2, tx |-> 4, amount |-> None] >>

FixtureRecords == {Fixture[i] : i \in 1 .. Len(Fixture)}

FixtureDeposit == \E r \in FixtureRecords : r.type = "Deposit" /\ Feed(r, MaxFixture)

FixtureWithdraw == \E r \in FixtureRecords : r.type = "Withdraw" /\ Feed(r, MaxFixture)

FixtureDispute == \E r \in FixtureRecords : r.type = "Dispute" /\ Feed(r, MaxFixture)

NextFixture ==
    \/ FixtureDeposit
    \/ FixtureWithdraw
    \/ FixtureDispute
    \/ EndOfStream

SpecFixture == Init /\ [][NextFixture]_vars

(***************************************************************************)
(* The same program on a stream of Deposit and Withdrawal records for      *)
(* client 1 whose amounts are present and not negative.                    *)
(***************************************************************************)
CashRecords ==
    [type : {"Deposit", "Withdraw"}, client : {1}, tx : {1},
     amount : {Some(0), Some(1), Some(2), Some(BigAmount)}]

CashDeposit == \E r \in CashRecords : r.type = "Deposit" /\ Feed(r, MaxCash)

CashWithdraw == \E r \in CashRecords : r.type = "Withdraw" /\ Feed(r, MaxCash)

NextCash ==
    \/ CashDeposit
    \/ CashWithdraw
    \/ EndOfStream

SpecCash == Init /\ [][NextCash]_vars

(***************************************************************************)
(* The same program on a stream for client 1 whose amounts, where present, *)
(* are not negative.                                                       *)
(***************************************************************************)
PlainRecords == {r \in SoloRecords : IsSome(r.amount) => Unwrap(r.amount) >= 0}

PlainDeposit ==
    /\ \E r \in PlainRecords : r.type = "Deposit" /\ Process(r, MaxPlain)
    /\ UNCHANGED <<trip, fed>>

PlainWithdraw ==
    /\ \E r \in PlainRecords : r.type = "Withdraw" /\ Process(r, MaxPlain)
    /\ UNCHANGED <<trip, fed>>

PlainDispute ==
    /\ \E r \in PlainRecords : r.type = "Dispute" /\ Process(r, MaxPlain)
    /\ UNCHANGED <<trip, fed>>

PlainResolve ==
    /\ \E r \in PlainRecords : r.type = "Resolve" /\ Process(r, MaxPlain)
    /\ UNCHANGED <<trip, fed>>

PlainChargeback ==
    /\ \E r \in PlainRecords : r.type = "Chargeback" /\ Process(r, MaxPlain)
    /\ UNCHANGED <<trip, fed>>

NextPlain ==
    \/ PlainDeposit
    \/ PlainWithdraw
    \/ PlainDispute
    \/ PlainResolve
    \/ PlainChargeback
    \/ EndOfStream

SpecPlain == Init /\ [][NextPlain]_vars

(***************************************************************************)
(* The record handled last, the account it addressed as the loop found or  *)
(* created it, and that account as the iteration left it.                  *)
(***************************************************************************)
Handled == IsSome(rec) /\ IsSome(pre)
Last == Unwrap(rec)
Before == Unwrap(pre)
After == Unwrap(accounts[Last.client - 1])

\* the accounts that exist
Existing == {Unwrap(accounts[i]) : i \in {j \in Indices : IsSome(accounts[j])}}

\* the amount of the deposit registered under id
Recorded(acc, id) == acc.hist[id].amount

(***************************************************************************)
(* C1.  Balance invariant: after every event, every account has            *)
(* total == available + held, in the form the repository's own test        *)
(* asserts it (held + available, added as f64, equals total).  An exact    *)
(* equality of the three values would imply this one.                      *)
(***************************************************************************)
BalanceInvariant ==
    \A acc \in Existing : FAdd(acc.held, acc.available) = acc.total

(***************************************************************************)
(* C2.  Permanent freeze: a record addressed to a locked account returns   *)
(* no error, the run goes on, and the account is left as it was in every   *)
(* field (so locked stays true).                                           *)
(***************************************************************************)
PermanentFreeze ==
    (Handled /\ Before.locked) =>
        /\ res = "Ok"
        /\ status \notin {"error", "panic"}
        /\ After = Before
        /\ After.locked

\* a Deposit or Withdrawal without amount reached a locked account
PermanentFreeze_Witness ==
    /\ Handled
    /\ Before.locked
    /\ Last.type \in {"Deposit", "Withdraw"}
    /\ Last.amount = None

(***************************************************************************)
(* C3.  Chargeback(id) on an unlocked account with id in disputed: total   *)
(* and held decrease by the amount recorded for id, available is           *)
(* unchanged, locked becomes true, id leaves hist and disputed_tx.         *)
(***************************************************************************)
ChargebackEffect ==
    (/\ Handled
     /\ Last.type = "Chargeback"
     /\ ~Before.locked
     /\ Last.tx \in Before.disputed_tx) =>
        /\ res = "Ok"
        /\ After.total = FSub(Before.total, Recorded(Before, Last.tx))
        /\ After.held = FSub(Before.held, Recorded(Before, Last.tx))
        /\ After.available = Before.available
        /\ After.locked
        /\ Last.tx \notin DOMAIN After.hist
        /\ Last.tx \notin After.disputed_tx
        /\ After.hist = [t \in (DOMAIN Before.hist) \ {Last.tx} |-> Before.hist[t]]
        /\ After.disputed_tx = Before.disputed_tx \ {Last.tx}

\* a chargeback of a disputed deposit was applied while another deposit stays
ChargebackEffect_Witness ==
    /\ Handled
    /\ Last.type = "Chargeback"
    /\ ~Before.locked
    /\ Last.tx \in Before.disputed_tx
    /\ Recorded(Before, Last.tx) > 0
    /\ DOMAIN After.hist # {}

(***************************************************************************)
(* C4.  Dispute(id) on an unlocked account whose hist contains id:         *)
(* available decreases and held increases by the recorded amount, total,   *)
(* locked and hist are unchanged and id is in disputed_tx afterwards,      *)
(* whatever the available balance was.                                     *)
(***************************************************************************)
DisputeEffect ==
    (/\ Handled
     /\ Last.type = "Dispute"
     /\ ~Before.locked
     /\ Last.tx \in DOMAIN Before.hist) =>
        /\ res = "Ok"
        /\ After.available = FSub(Before.available, Recorded(Before, Last.tx))
        /\ After.held = FAdd(Before.held, Recorded(Before, Last.tx))
        /\ After.total = Before.total
        /\ After.locked = Before.locked
        /\ After.hist = Before.hist
        /\ After.disputed_tx = Before.disputed_tx \cup {Last.tx}

\* the deposited funds were withdrawn before the dispute: available goes negative
DisputeEffect_Witness ==
    /\ Handled
    /\ Last.type = "Dispute"
    /\ ~Before.locked
    /\ Last.tx \in DOMAIN Before.hist
    /\ Recorded(Before, Last.tx) > 0
    /\ Before.available = 0
    /\ Before.total = 0
    /\ After.available = -Recorded(Before, Last.tx)
    /\ After.held = Recorded(Before, Last.tx)
    /\ After.total = 0

(***************************************************************************)
(* C5.  Deposit(id, amount) with an amount, on an unlocked account:        *)
(* available and total increase by amount, held, locked and disputed_tx    *)
(* are unchanged, hist[id] holds amount, the other entries of hist are     *)
(* kept, and no error is returned.                                         *)
(***************************************************************************)
DepositEffect ==
    (/\ Handled
     /\ Last.type = "Deposit"
     /\ ~Before.locked
     /\ IsSome(Last.amount)) =>
        /\ res = "Ok"
        /\ status # "error"
        /\ After.available = FAdd(Before.available, Unwrap(Last.amount))
        /\ After.total = FAdd(Before.total, Unwrap(Last.amount))
        /\ After.held = Before.held
        /\ After.locked = Before.locked
        /\ After.disputed_tx = Before.disputed_tx
        /\ DOMAIN After.hist = (DOMAIN Before.hist) \cup {Last.tx}
        /\ Recorded(After, Last.tx) = Unwrap(Last.amount)
        /\ \A t \in (DOMAIN Before.hist) \ {Last.tx} : After.hist[t] = Before.hist[t]

\* a deposit was applied to an account that already held another deposit
DepositEffect_Witness ==
    /\ Handled
    /\ Last.type = "Deposit"
    /\ ~Before.locked
    /\ IsSome(Last.amount)
    /\ Unwrap(Last.amount) > 0
    /\ (DOMAIN Before.hist) \ {Last.tx} # {}

(***************************************************************************)
(* C6.  Withdrawal on an unlocked account: with amount > available it      *)
(* returns NotEnoughAvailableFunds and the account is as before; with      *)
(* amount <= available it succeeds, available and total decrease by        *)
(* amount and nothing else changes.                                        *)
(***************************************************************************)
WithdrawalEffect ==
    (/\ Handled
     /\ Last.type = "Withdraw"
     /\ ~Before.locked
     /\ IsSome(Last.amount)) =>
        IF Unwrap(Last.amount) > Before.available
        THEN /\ res = "NotEnoughAvailableFunds"
             /\ After = Before
        ELSE /\ res = "Ok"
             /\ After.available = FSub(Before.available, Unwrap(Last.amount))
             /\ After.total = FSub(Before.total, Unwrap(Last.amount))
             /\ After = [Before EXCEPT !.available = After.available,
                                       !.total = After.total]

\* a withdrawal of more than a positive available balance was refused
WithdrawalEffect_Witness ==
    /\ Handled
    /\ Last.type = "Withdraw"
    /\ ~Before.locked
    /\ IsSome(Last.amount)
    /\ Before.available > 0
    /\ Unwrap(Last.amount) > Before.available
    /\ res = "NotEnoughAvailableFunds"

(***************************************************************************)
(* C7.  A Deposit or Withdrawal without amount, addressed to an unlocked   *)
(* account, is rejected with AmountMandatory and the account is left as    *)
(* it was; Dispute, Resolve and Chargeback never return AmountMandatory,   *)
(* with or without an amount.                                              *)
(***************************************************************************)
AmountRequired ==
    Handled =>
        /\ (/\ Last.type \in {"Deposit", "Withdraw"}
            /\ ~Before.locked
            /\ Last.amount = None) =>
                (res = "AmountMandatory" /\ status = "error" /\ After = Before)
        /\ (Last.type \in {"Dispute", "Resolve", "Chargeback"}) =>
                res # "AmountMandatory"

\* a Withdrawal without amount reached an unlocked account that holds funds
AmountRequired_Witness ==
    /\ Handled
    /\ Last.type = "Withdraw"
    /\ ~Before.locked
    /\ Last.amount = None
    /\ Before.available > 0

(***************************************************************************)
(* C8.  Ignored dispute actions: a Resolve(id) or Chargeback(id) whose id  *)
(* is not in disputed_tx returns no error and leaves the account as it     *)
(* was; such a Chargeback does not lock the account.                       *)
(***************************************************************************)
IgnoredDisputeActions ==
    (/\ Handled
     /\ Last.type \in {"Resolve", "Chargeback"}
     /\ Last.tx \notin Before.disputed_tx) =>
        /\ res = "Ok"
        /\ After = Before

\* a Chargeback named a deposit that is recorded but not disputed
IgnoredDisputeActions_Witness ==
    /\ Handled
    /\ Last.type = "Chargeback"
    /\ Last.tx \in DOMAIN Before.hist
    /\ Last.tx \notin Before.disputed_tx
    /\ ~After.locked

(***************************************************************************)
(* C9.  A Dispute(id) whose id is not in the hist of the addressed account *)
(* returns no error and leaves that account as it was, also when id is     *)
(* the deposit of another client.                                          *)
(***************************************************************************)
UnknownDisputeIgnored ==
    (/\ Handled
     /\ Last.type = "Dispute"
     /\ Last.tx \notin DOMAIN Before.hist) =>
        /\ res = "Ok"
        /\ After = Before

\* the disputed id is a deposit recorded for a different client
UnknownDisputeIgnored_Witness ==
    /\ Handled
    /\ Last.type = "Dispute"
    /\ Last.tx \notin DOMAIN Before.hist
    /\ \E acc \in Existing : acc.client # Last.client /\ Last.tx \in DOMAIN acc.hist

(***************************************************************************)
(* C10.  Dispute/resolve round trip: on an unlocked account with no open   *)
(* dispute, Deposit(T, A), Dispute(T), Resolve(T) leave available at its   *)
(* value just after the deposit, held at 0, total as the deposit left it,  *)
(* locked false, and T in neither hist nor disputed_tx.                    *)
(***************************************************************************)
RoundTrip ==
    (IsSome(trip) /\ Unwrap(trip).stage = 3) =>
        LET acc == Unwrap(accounts[0])
            dep == Unwrap(trip).deposited
            T   == Unwrap(trip).tx
        IN  /\ acc.available = dep.available
            /\ acc.held = 0
            /\ acc.total = dep.total
            /\ ~acc.locked
            /\ T \notin DOMAIN acc.hist
            /\ T \notin acc.disputed_tx

(***************************************************************************)
(* C11.  In every reachable state of every account, disputed_tx is a       *)
(* subset of the keys of hist.                                             *)
(***************************************************************************)
DisputedInHistory ==
    \A acc \in Existing : acc.disputed_tx \subseteq DOMAIN acc.hist

\* a dispute was concluded while another one stays open
DisputedInHistory_Witness ==
    /\ Handled
    /\ Last.type \in {"Resolve", "Chargeback"}
    /\ Last.tx \in Before.disputed_tx
    /\ After.disputed_tx # {}

\* the n-th record of fed concluded an open dispute: a Resolve or Chargeback
\* that found its id in disputed_tx and in hist of an unlocked account
Concludes(n) ==
    LET r   == fed[n]
        run == RunStream(fed, n - 1)
    IN  /\ r.type \in {"Resolve", "Chargeback"}
        /\ run.status = "reading"
        /\ ~IndexPanics(r.client)
        /\ IsSome(run.accounts[r.client - 1])
        /\ LET acc == Unwrap(run.accounts[r.client - 1])
           IN  /\ ~acc.locked
               /\ r.tx \in acc.disputed_tx
               /\ r.tx \in DOMAIN acc.hist

(***************************************************************************)
(* C12.  In a stream in which each deposit TxId occurs once: after a       *)
(* dispute on T was concluded by Resolve(T) or Chargeback(T), T is in      *)
(* neither hist nor disputed_tx in every later state, and every later      *)
(* Dispute(T), Resolve(T) or Chargeback(T) leaves the account as it was.   *)
(***************************************************************************)
NeverDisputedAgain ==
    \A n \in 1 .. Len(fed) :
        Concludes(n) =>
            LET acc == Unwrap(accounts[fed[n].client - 1])
            IN  /\ fed[n].tx \notin DOMAIN acc.hist
                /\ fed[n].tx \notin acc.disputed_tx
                /\ (/\ n < Len(fed)
                    /\ Last.client = fed[n].client
                    /\ Last.tx = fed[n].tx
                    /\ Last.type \in {"Dispute", "Resolve", "Chargeback"})
                   => (res = "Ok" /\ After = Before)

\* a Dispute of T reached the unlocked account after Resolve(T) had concluded
\* the dispute on T
NeverDisputedAgain_Witness ==
    /\ \E n \in 1 .. Len(fed) :
          /\ Concludes(n)
          /\ n < Len(fed)
          /\ Last.tx = fed[n].tx
    /\ Last.type = "Dispute"
    /\ ~Before.locked

(***************************************************************************)
(* C13.  An error returned by create or apply (AmountMandatory,            *)
(* NotEnoughAvailableFunds) aborts the run: from then on no account        *)
(* changes and nothing is ever written; a snapshot is written only by a    *)
(* run none of whose records returned an error.                            *)
(***************************************************************************)
ErrorAborts ==
    /\ [](res \in {"AmountMandatory", "NotEnoughAvailableFunds"}
            => (status = "error" /\ output = <<>>))
    /\ [][status = "error" => UNCHANGED <<accounts, output, status>>]_vars
    /\ [](status = "written" => res = "Ok")

\* a Withdrawal was refused while another client's account held funds
ErrorAborts_Witness ==
    /\ status = "error"
    /\ res = "NotEnoughAvailableFunds"
    /\ \E acc \in Existing : acc.client # Last.client /\ acc.total > 0

\* the client ids addressed by the records read so far
Addressed == {fed[i].client : i \in 1 .. Len(fed)}

(***************************************************************************)
(* C14.  The snapshot written by a run without error holds exactly one     *)
(* record for each client id addressed by a record of the stream, also     *)
(* when all its records were ignored, in ascending order of client id      *)
(* whatever the order of arrival; an account once created stays.           *)
(***************************************************************************)
SnapshotComplete ==
    /\ [](status = "written" =>
            /\ {output[i].client : i \in 1 .. Len(output)} = Addressed
            /\ \A i, j \in 1 .. Len(output) :
                  i < j => output[i].client < output[j].client)
    /\ [][\A i \in Indices : IsSome(accounts[i]) => IsSome(accounts'[i])]_vars

\* client 2 arrived before client 1, and the only record of one of them was a
\* Dispute of an unknown id
SnapshotComplete_Witness ==
    /\ status = "written"
    /\ Len(fed) = 2
    /\ fed[1].client = 2
    /\ fed[2].client = 1
    /\ \E i \in 1 .. 2 : fed[i].type = "Dispute"
    /\ Len(output) = 2

(***************************************************************************)
(* C15.  Get-or-create has no error path: whatever client id a record      *)
(* carries, 0 included, the lookup does not fail: the record finds its     *)
(* account, a zeroed, unlocked and empty one if it is the first record of  *)
(* that client, and the account is stored.                                 *)
(***************************************************************************)
GetOrCreateTotal ==
    IsSome(rec) =>
        /\ res # "Panic"
        /\ status # "panic"
        /\ IsSome(pre)
        /\ Last.client - 1 \in Indices
        /\ IsSome(accounts[Last.client - 1])
        /\ (nread = 1 => Before = New(Last.client))

\* the stream with its records k and k + 1 exchanged
Swap(stream, k) ==
    [i \in 1 .. Len(stream) |->
        IF i = k THEN stream[k + 1] ELSE IF i = k + 1 THEN stream[k] ELSE stream[i]]

\* the run was stopped by an Err or a panic
Aborted(st) == st \in {"error", "panic"}

(***************************************************************************)
(* C16.  A record addressed to client c leaves the account of every other  *)
(* client as it was; and the run of the stream read so far with two        *)
(* adjacent records of different clients exchanged is aborted if and only  *)
(* if this run is, and otherwise leaves every account in the same state.   *)
(***************************************************************************)
ClientsIndependent ==
    /\ [][\A i \in Indices :
            (IsSome(rec') /\ i # Unwrap(rec').client - 1) => accounts'[i] = accounts[i]]_vars
    /\ [](\A k \in 1 .. Len(fed) - 1 :
            fed[k].client # fed[k + 1].client =>
                LET other == RunStream(Swap(fed, k), Len(fed))
                IN  /\ Aborted(other.status) <=> Aborted(status)
                    /\ ~Aborted(status) => other.accounts = accounts)

\* client 1 then client 2 deposited, and the run goes on
ClientsIndependent_Witness ==
    /\ status = "reading"
    /\ Len(fed) >= 2
    /\ \E k \in 1 .. Len(fed) - 1 :
          /\ fed[k].client = 1 /\ fed[k].type = "Deposit"
          /\ fed[k + 1].client = 2 /\ fed[k + 1].type = "Deposit"
    /\ \A acc \in Existing : acc.total > 0
    /\ Cardinality(Existing) = 2

(***************************************************************************)
(* C17.  The stream of the end-to-end fixture runs without error and       *)
(* leaves account 1 at available 0, held 0, total 0, unlocked and account  *)
(* 2 at available 0, held 10, total 10, unlocked; these are the two        *)
(* records of the snapshot.                                                *)
(***************************************************************************)
FixtureOutcome ==
    /\ \A n \in 1 .. Len(Fixture) :
          fed = SubSeq(Fixture, 1, n) => (res = "Ok" /\ ~Aborted(status))
    /\ fed = Fixture =>
          /\ Serialize(Unwrap(accounts[0])) =
                [client |-> 1, available |-> 0, held |-> 0, total |-> 0, locked |-> FALSE]
          /\ Serialize(Unwrap(accounts[1])) =
                [client |-> 2, available |-> 0, held |-> 10, total |-> 10, locked |-> FALSE]
          /\ status = "written" =>
                output = <<Serialize(Unwrap(accounts[0])), Serialize(Unwrap(accounts[1]))>>

\* the fixture was read to its end and the snapshot written
FixtureOutcome_Witness ==
    /\ fed = Fixture
    /\ status = "written"
    /\ Len(output) = 2

\* the sum of the amounts of the records of one type among the first n of fed
RECURSIVE SumOf(_, _)
SumOf(type, n) ==
    IF n = 0 THEN 0
    ELSE SumOf(type, n - 1)
         + (IF fed[n].type = type /\ IsSome(fed[n].amount) THEN Unwrap(fed[n].amount) ELSE 0)

(***************************************************************************)
(* C18.  After a run without error of Deposit and Withdrawal records with  *)
(* non-negative amounts on one account: held is 0, the account is          *)
(* unlocked, and available and total both equal the sum of the deposited   *)
(* amounts minus the sum of the withdrawn amounts, which is not negative   *)
(* (so equal sums leave total at 0).                                       *)
(***************************************************************************)
CashBalance ==
    (~Aborted(status) /\ IsSome(accounts[0])) =>
        LET acc == Unwrap(accounts[0])
            net == SumOf("Deposit", Len(fed)) - SumOf("Withdraw", Len(fed))
        IN  /\ acc.held = 0
            /\ ~acc.locked
            /\ acc.available = acc.total
            /\ acc.total = net
            /\ net >= 0

\* the sum, added as f64 in ascending order of id, of the amounts that hist
\* records for the ids of a set
RECURSIVE RecordedSum(_, _)
RecordedSum(acc, ids) ==
    IF ids = {} THEN 0
    ELSE LET t == Min(ids)
         IN  FAdd(Recorded(acc, t), RecordedSum(acc, ids \ {t}))

(***************************************************************************)
(* C19.  In every state of every account, held equals the sum of the       *)
(* amounts that hist records for the ids in disputed_tx, and so is 0 when  *)
(* disputed_tx is empty, also after a Dispute of an id that is already     *)
(* under dispute.                                                          *)
(***************************************************************************)
HeldIsDisputedSum ==
    \A acc \in Existing : acc.held = RecordedSum(acc, acc.disputed_tx)

(***************************************************************************)
(* C20.  With amounts that are not negative, held is not negative in any   *)
(* state of any account, also when a Deposit reuses a TxId that is in      *)
(* hist.                                                                   *)
(***************************************************************************)
HeldNotNegative ==
    \A acc \in Existing : acc.held >= 0

====
